---- MODULE Spec2Model ----
(***************************************************************************)
(* Model of the concierge-ai query classifier, agents and agent pipeline.  *)
(*                                                                         *)
(* Python values are tagged records [ty, v]:                               *)
(*   "str"  - a string whose characters the code inspects (a sequence of   *)
(*            one-character strings),                                      *)
(*   "text" - a string the code only passes on (messages, ids, queries),   *)
(*   "int", "bool", "none", "list", "tuple", "float" (in hundredths),      *)
(*   "dict" - a function from key to tagged value.                         *)
(* A result, a context and a classification are "dict" values.             *)
(***************************************************************************)
EXTENDS Integers, Sequences, FiniteSets, TLC

VARIABLES
    pc,              \* pipeline: Received, Classified, Running, Completed, Failed
    request,         \* pipeline: the query of the request
    classification,  \* pipeline: what the classifier returned
    sequence,        \* pipeline: the agent type names selected
    stage,           \* pipeline: the number of agents that have passed
    Context,         \* pipeline: the accumulating context
    trace,           \* pipeline: one entry per agent that ran, in order
    payload,         \* pipeline: the response, once the run has ended
    op,              \* unit call: the operation invoked
    arg,             \* unit call: its input
    ret,             \* unit call: its outcome
    agents,          \* AgentFactory._agents, the class attribute
    held             \* unit call: the caller's context mapping after the call

pipeline == <<pc, request, classification, sequence, stage, Context, trace, payload>>
vars == <<pc, request, classification, sequence, stage, Context, trace, payload,
          op, arg, ret, agents, held>>

-----------------------------------------------------------------------------
(* Python values *)

PyStr(s)   == [ty |-> "str",  v |-> s]
PyText(t)  == [ty |-> "text", v |-> t]
PyInt(n)   == [ty |-> "int",  v |-> n]
PyBool(b)  == [ty |-> "bool", v |-> b]
PyFloat(c) == [ty |-> "float", v |-> c]    \* c is the value in hundredths
PyNone     == [ty |-> "none", v |-> 0]
PyDict(f)  == [ty |-> "dict", v |-> f]
PyList(q)  == [ty |-> "list", v |-> q]
PyTuple(q) == [ty |-> "tuple", v |-> q]

EmptyMap == [k \in {} |-> PyNone]

\* dict.get(key, default)
Get(d, k, default) == IF k \in DOMAIN d THEN d[k] ELSE default

\* Python truth value of an object
Truthy(x) ==
    CASE x.ty = "none" -> FALSE
      [] x.ty = "bool" -> x.v
      [] x.ty = "int"  -> x.v # 0
      [] x.ty = "float" -> x.v # 0
      [] x.ty = "str"  -> Len(x.v) > 0
      [] x.ty = "text" -> x.v # ""
      [] x.ty = "list" -> Len(x.v) > 0
      [] x.ty = "dict" -> DOMAIN x.v # {}

\* isinstance(x, str)
IsStr(x) == x.ty \in {"str", "text"}

\* an outcome of a call: a returned value or a raised exception
Return(val)     == [raised |-> FALSE, value |-> val]
Raise(exc, msg) == [raised |-> TRUE, exc |-> exc, msg |-> msg]

\* GetValid testing that the key is there, not what it holds
GetValid_KeyPresent(response) ==
    IF response.ty = "dict"
    THEN Return(PyBool("valid" \in DOMAIN response.v))
    ELSE Raise("AttributeError", "object has no attribute 'get'")

\* response.get("valid", False), as every agent but Query Analysis returns it
\* from validate_response; a response that is no dict has no get
GetValid(response) ==
    IF response.ty = "dict"
    THEN Return(Get(response.v, "valid", PyBool(FALSE)))
    ELSE Raise("AttributeError", "object has no attribute 'get'")

-----------------------------------------------------------------------------
(* str methods, on sequences of characters *)

UpperChars == <<"A","B","C","D","E","F","G","H","I","J","K","L","M",
                "N","O","P","Q","R","S","T","U","V","W","X","Y","Z">>
LowerChars == <<"a","b","c","d","e","f","g","h","i","j","k","l","m",
                "n","o","p","q","r","s","t","u","v","w","x","y","z">>
DigitChars == <<"0","1","2","3","4","5","6","7","8","9">>
Whitespace == {" ", "\t"}

LowerChar(c) ==
    IF \E i \in 1..26 : UpperChars[i] = c
    THEN LowerChars[CHOOSE i \in 1..26 : UpperChars[i] = c]
    ELSE c

\* str.lower()
StrLower(s) == [i \in 1..Len(s) |-> LowerChar(s[i])]

\* str.replace(old, "") for a one-character old
StrRemove(s, old) == SelectSeq(s, LAMBDA c : c # old)

\* sub in s
StrContains(s, sub) ==
    \E i \in 1..(Len(s) - Len(sub) + 1) : SubSeq(s, i, i + Len(sub) - 1) = sub

RECURSIVE StrLStrip(_)
StrLStrip(s) ==
    IF s # <<>> /\ Head(s) \in Whitespace THEN StrLStrip(Tail(s)) ELSE s

RECURSIVE StrRStrip(_)
StrRStrip(s) ==
    IF s # <<>> /\ s[Len(s)] \in Whitespace
    THEN StrRStrip(SubSeq(s, 1, Len(s) - 1)) ELSE s

\* str.strip()
StrStrip(s) == StrRStrip(StrLStrip(s))

RECURSIVE SplitFrom(_, _, _)
SplitFrom(s, i, cur) ==
    IF i > Len(s)
    THEN (IF cur = <<>> THEN <<>> ELSE <<cur>>)
    ELSE IF s[i] \in Whitespace
         THEN (IF cur = <<>> THEN SplitFrom(s, i + 1, <<>>)
                             ELSE <<cur>> \o SplitFrom(s, i + 1, <<>>))
         ELSE SplitFrom(s, i + 1, Append(cur, s[i]))

\* str.split(): the words between runs of whitespace
StrSplit(s) == SplitFrom(s, 1, <<>>)

DigitVal(c) == (CHOOSE i \in 1..10 : DigitChars[i] = c) - 1
IsDigit(c)  == \E i \in 1..10 : DigitChars[i] = c

RECURSIVE DigitsVal(_)
DigitsVal(s) ==
    IF s = <<>> THEN 0
    ELSE 10 * DigitsVal(SubSeq(s, 1, Len(s) - 1)) + DigitVal(s[Len(s)])

\* int(s) for a str: surrounding whitespace and a sign are accepted, then
\* digits only; anything else is a ValueError
IntOfStr(s) ==
    LET t    == StrStrip(s)
        neg  == t # <<>> /\ Head(t) = "-"
        body == IF t # <<>> /\ Head(t) \in {"+", "-"} THEN Tail(t) ELSE t
    IN  IF body # <<>> /\ \A i \in 1..Len(body) : IsDigit(body[i])
        THEN Return(IF neg THEN 0 - DigitsVal(body) ELSE DigitsVal(body))
        ELSE Raise("ValueError", "invalid literal for int() with base 10")

\* int(x) for any object
IntOf(x) ==
    CASE x.ty = "str"  -> IntOfStr(x.v)
      [] x.ty = "text" -> Raise("ValueError", "invalid literal for int() with base 10")
      [] x.ty = "int"  -> Return(x.v)
      [] x.ty = "bool" -> Return(IF x.v THEN 1 ELSE 0)
      [] x.ty = "float" -> Return(IF x.v >= 0 THEN x.v \div 100
                                               ELSE 0 - ((0 - x.v) \div 100))
      [] OTHER         -> Raise("TypeError", "int() argument must be a string or a number")

\* str(n) for 0 <= n <= 99
StrOfNat(n) ==
    IF n < 10 THEN <<DigitChars[n + 1]>>
    ELSE <<DigitChars[(n \div 10) + 1], DigitChars[(n % 10) + 1]>>

-----------------------------------------------------------------------------
(* TimeAnalysisAgent *)

\* day_mapping with Sunday numbered 7, as in the ISO week
day_mapping_SundaySeven ==
    [d \in { <<"m","o","n","d","a","y">>, <<"t","u","e","s","d","a","y">>,
             <<"w","e","d","n","e","s","d","a","y">>,
             <<"t","h","u","r","s","d","a","y">>, <<"f","r","i","d","a","y">>,
             <<"s","a","t","u","r","d","a","y">>, <<"s","u","n","d","a","y">> } |->
        CASE d = <<"m","o","n","d","a","y">>             -> 1
          [] d = <<"t","u","e","s","d","a","y">>         -> 2
          [] d = <<"w","e","d","n","e","s","d","a","y">> -> 3
          [] d = <<"t","h","u","r","s","d","a","y">>     -> 4
          [] d = <<"f","r","i","d","a","y">>             -> 5
          [] d = <<"s","a","t","u","r","d","a","y">>     -> 6
          [] d = <<"s","u","n","d","a","y">>             -> 7]

\* self.day_mapping
day_mapping ==
    [d \in { <<"m","o","n","d","a","y">>, <<"t","u","e","s","d","a","y">>,
             <<"w","e","d","n","e","s","d","a","y">>,
             <<"t","h","u","r","s","d","a","y">>, <<"f","r","i","d","a","y">>,
             <<"s","a","t","u","r","d","a","y">>, <<"s","u","n","d","a","y">> } |->
        CASE d = <<"m","o","n","d","a","y">>             -> 1
          [] d = <<"t","u","e","s","d","a","y">>         -> 2
          [] d = <<"w","e","d","n","e","s","d","a","y">> -> 3
          [] d = <<"t","h","u","r","s","d","a","y">>     -> 4
          [] d = <<"f","r","i","d","a","y">>             -> 5
          [] d = <<"s","a","t","u","r","d","a","y">>     -> 6
          [] d = <<"s","u","n","d","a","y">>             -> 0]

\* the guard of the 12-hour branch: time_str is a str holding "am" or "pm"
HasMeridiem(time_str) ==
    /\ time_str.ty = "str"
    /\ \/ StrContains(StrLower(time_str.v), <<"a","m">>)
       \/ StrContains(StrLower(time_str.v), <<"p","m">>)

\* ConvertHour without the "hour != 12" test: every pm hour gains 12
ConvertHour_NoNoonTest(time_str) ==
    IF HasMeridiem(time_str)
    THEN LET time_parts == StrSplit(StrStrip(StrRemove(StrLower(time_str.v), ".")))
             parsed     == IntOfStr(time_parts[1])
         IN  IF time_parts = <<>> THEN Raise("IndexError", "list index out of range")
             ELSE IF parsed.raised THEN parsed
             ELSE IF Len(time_parts) < 2
                  THEN Raise("IndexError", "list index out of range")
             ELSE IF StrContains(time_parts[2], <<"p","m">>)
                  THEN Return(PyInt(parsed.value + 12))
             ELSE IF StrContains(time_parts[2], <<"a","m">>) /\ parsed.value = 12
                  THEN Return(PyInt(0))
             ELSE Return(PyInt(parsed.value))
    ELSE IF Truthy(time_str)
         THEN LET parsed == IntOf(time_str)
              IN  IF parsed.raised THEN parsed ELSE Return(PyInt(parsed.value))
         ELSE Return(PyNone)

\* "Convert time to 24-hour format": the hour, or the exception raised
ConvertHour(time_str) ==
    IF HasMeridiem(time_str)
    THEN LET time_parts == StrSplit(StrStrip(StrRemove(StrLower(time_str.v), ".")))
             parsed     == IntOfStr(time_parts[1])
         IN  IF time_parts = <<>> THEN Raise("IndexError", "list index out of range")
             ELSE IF parsed.raised THEN parsed
             ELSE IF Len(time_parts) < 2
                  THEN Raise("IndexError", "list index out of range")
             ELSE IF StrContains(time_parts[2], <<"p","m">>) /\ parsed.value # 12
                  THEN Return(PyInt(parsed.value + 12))
             ELSE IF StrContains(time_parts[2], <<"a","m">>) /\ parsed.value = 12
                  THEN Return(PyInt(0))
             ELSE Return(PyInt(parsed.value))
    ELSE IF Truthy(time_str)
         THEN LET parsed == IntOf(time_str)
              IN  IF parsed.raised THEN parsed ELSE Return(PyInt(parsed.value))
         ELSE Return(PyNone)

\* TimeTry taking a day that is no string for an unknown day
TimeTry_DayOptional(temporal) ==
    IF temporal.ty # "dict"
    THEN Raise("AttributeError", "object has no attribute 'get'")
    ELSE LET dayv     == Get(temporal.v, "day", PyStr(<<>>))
             time_str == Get(temporal.v, "time", PyStr(<<>>))
             context  == Get(temporal.v, "time_context", PyText("open_until"))
             day      == IF dayv.ty = "str" THEN StrLower(dayv.v) ELSE <<>>
             hour     == ConvertHour(time_str)
         IN  IF hour.raised THEN hour
             ELSE Return(PyDict(
                 [valid        |-> PyBool(TRUE),
                  has_temporal |-> PyBool(TRUE),
                  day_number   |-> PyInt(IF day \in DOMAIN day_mapping
                                       THEN day_mapping[day] ELSE -1),
                  day_name     |-> PyStr(day),
                  hour_24      |-> hour.value,
                  context      |-> context]))

\* the body of the try block: the result mapping, or the exception raised
TimeTry(temporal) ==
    IF temporal.ty # "dict"
    THEN Raise("AttributeError", "object has no attribute 'get'")
    ELSE LET dayv     == Get(temporal.v, "day", PyStr(<<>>))
             time_str == Get(temporal.v, "time", PyStr(<<>>))
             context  == Get(temporal.v, "time_context", PyText("open_until"))
         IN  IF dayv.ty # "str"
             THEN Raise("AttributeError", "object has no attribute 'lower'")
             ELSE LET day  == StrLower(dayv.v)
                      hour == ConvertHour(time_str)
                  IN  IF hour.raised THEN hour
                      ELSE Return(PyDict(
                          [valid        |-> PyBool(TRUE),
                           has_temporal |-> PyBool(TRUE),
                           day_number   |-> PyInt(IF day \in DOMAIN day_mapping
                                                THEN day_mapping[day] ELSE -1),
                           day_name     |-> PyStr(day),
                           hour_24      |-> hour.value,
                           context      |-> context]))

\* TimeAnalysis_process whose no-op result carries has_temporal alone
TimeAnalysis_process_NoValid(params) ==
    LET temporal == Get(params.v, "temporal", PyDict(EmptyMap))
    IN  IF ~Truthy(temporal)
        THEN Return(PyDict([has_temporal |-> PyBool(FALSE)]))
        ELSE LET body == TimeTry(temporal)
             IN  IF body.raised
                 THEN Return(PyDict([valid |-> PyBool(FALSE), error |-> PyText(body.msg)]))
                 ELSE body

\* TimeAnalysisAgent.process
TimeAnalysis_process(params) ==
    LET temporal == Get(params.v, "temporal", PyDict(EmptyMap))
    IN  IF ~Truthy(temporal)
        THEN Return(PyDict([valid |-> PyBool(TRUE), has_temporal |-> PyBool(FALSE)]))
        ELSE LET body == TimeTry(temporal)
             IN  IF body.raised
                 THEN Return(PyDict([valid |-> PyBool(FALSE), error |-> PyText(body.msg)]))
                 ELSE body

\* TimeAnalysisAgent.validate_response
TimeAnalysis_validate_response(response) ==
    GetValid(response)

-----------------------------------------------------------------------------
(* GoogleMapsLLMIntegration._parse_time *)

\* _parse_time adding 12 to every pm hour up to 12
parse_time_NoonGains(time_str) ==
    LET parts  == StrSplit(StrStrip(StrLower(time_str.v)))
        parsed == IntOfStr(parts[1])
    IN  IF parts = << >> THEN Raise("IndexError", "list index out of range")
        ELSE IF parsed.raised THEN parsed
        ELSE IF Len(parts) < 2 THEN Raise("IndexError", "list index out of range")
        ELSE IF StrContains(parts[2], <<"p","m">>) /\ parsed.value <= 12
             THEN Return(PyTuple(<<PyInt(parsed.value + 12), PyInt(0)>>))
        ELSE IF StrContains(parts[2], <<"a","m">>) /\ parsed.value = 12
             THEN Return(PyTuple(<<PyInt(0), PyInt(0)>>))
        ELSE Return(PyTuple(<<PyInt(parsed.value), PyInt(0)>>))

\* _parse_time(time_str): the pair (hours, minutes), or the exception raised
parse_time(time_str) ==
    LET parts  == StrSplit(StrStrip(StrLower(time_str.v)))
        parsed == IntOfStr(parts[1])
    IN  IF parts = << >> THEN Raise("IndexError", "list index out of range")
        ELSE IF parsed.raised THEN parsed
        ELSE IF Len(parts) < 2 THEN Raise("IndexError", "list index out of range")
        ELSE IF StrContains(parts[2], <<"p","m">>) /\ parsed.value < 12
             THEN Return(PyTuple(<<PyInt(parsed.value + 12), PyInt(0)>>))
        ELSE IF StrContains(parts[2], <<"a","m">>) /\ parsed.value = 12
             THEN Return(PyTuple(<<PyInt(0), PyInt(0)>>))
        ELSE Return(PyTuple(<<PyInt(parsed.value), PyInt(0)>>))

-----------------------------------------------------------------------------
(* Collaborators: the language model and the mapping provider.  A call      *)
(* returns (a message content, a decoded response body) or raises.          *)

Berlin  == <<"B","e","r","l","i","n">>
Mitte   == <<"M","i","t","t","e">>
Germany == <<"G","e","r","m","a","n","y">>
Friday  == <<"F","r","i","d","a","y">>

\* JSON texts a model may answer with, and the value each one denotes; any
\* other text is not JSON
JsonDocs ==
    { [text  |-> "{pst, 0.95, {place_type, location: Berlin, time: 11 pm}}",
       value |-> PyDict([query_type |-> PyText("place_search_temporal"),
                         confidence |-> PyFloat(95),
                         extracted_params |-> PyDict(
                             [place_type |-> PyText("restaurants"),
                              location   |-> PyStr(Berlin),
                              time       |-> PyStr(<<"1","1"," ","p","m">>)])])],
      [text  |-> "{pst, 0.9, {place_type}}",
       value |-> PyDict([query_type |-> PyText("place_search_temporal"),
                         confidence |-> PyFloat(90),
                         extracted_params |-> PyDict(
                             [place_type |-> PyText("restaurants")])])],
      [text  |-> "{pac, 0.9, {place: Starbucks, attribute: wifi}}",
       value |-> PyDict([query_type |-> PyText("place_attribute_check"),
                         confidence |-> PyFloat(90),
                         extracted_params |-> PyDict(
                             [place     |-> PyText("Starbucks"),
                              attribute |-> PyText("wifi")])])],
      [text  |-> "{pac, 0.6, {place: Starbucks}}",
       value |-> PyDict([query_type |-> PyText("place_attribute_check"),
                         confidence |-> PyFloat(60),
                         extracted_params |-> PyDict(
                             [place |-> PyText("Starbucks")])])],
      [text  |-> "{nearby, 0.85, {location: Berlin}}",
       value |-> PyDict([query_type |-> PyText("nearby_search"),
                         confidence |-> PyFloat(85),
                         extracted_params |-> PyDict(
                             [location |-> PyStr(Berlin)])])],
      [text  |-> "{nearby, 0.5, {}}",
       value |-> PyDict([query_type |-> PyText("nearby_search"),
                         confidence |-> PyFloat(50),
                         extracted_params |-> PyDict(EmptyMap)])],
      [text  |-> "{unclassified, 0.3, {}}",
       value |-> PyDict([query_type |-> PyText("unclassified"),
                         confidence |-> PyFloat(30),
                         extracted_params |-> PyDict(EmptyMap)])],
      [text  |-> "{restaurant_search, 0.7, {}}",
       value |-> PyDict([query_type |-> PyText("restaurant_search"),
                         confidence |-> PyFloat(70),
                         extracted_params |-> PyDict(EmptyMap)])],
      [text  |-> "{}",     value |-> PyDict(EmptyMap)],
      [text  |-> "[1]",    value |-> PyList(<<PyInt(1)>>)],
      [text  |-> "null",   value |-> PyNone],
      [text  |-> "{intent, place_type, location: {Mitte, Berlin, Germany}, temporal: {11 pm, Friday}}",
       value |-> PyDict([intent     |-> PyText("find restaurants"),
                         place_type |-> PyText("restaurant"),
                         location   |-> PyDict([area    |-> PyStr(Mitte),
                                                city    |-> PyStr(Berlin),
                                                country |-> PyStr(Germany)]),
                         temporal   |-> PyDict(
                             [time |-> PyStr(<<"1","1"," ","p","m">>),
                              day  |-> PyStr(Friday)])])],
      [text  |-> "{intent, place_type, location: {city: Berlin}, temporal: {}}",
       value |-> PyDict([intent     |-> PyText("find cafes"),
                         place_type |-> PyText("cafe"),
                         location   |-> PyDict([area    |-> PyStr(<<>>),
                                                city    |-> PyStr(Berlin),
                                                country |-> PyStr(<<>>)]),
                         temporal   |-> PyDict(EmptyMap)])],
      [text  |-> "{intent, place_type, location: {}, temporal: {11 p.m.}}",
       value |-> PyDict([intent     |-> PyText("find bars"),
                         place_type |-> PyText("bar"),
                         location   |-> PyDict(EmptyMap),
                         temporal   |-> PyDict(
                             [time |-> PyStr(<<"1","1"," ","p",".","m",".">>)])])],
      [text  |-> "{intent, place_type, location: {city: Berlin}, valid: false}",
       value |-> PyDict([intent     |-> PyText("find cafes"),
                         place_type |-> PyText("cafe"),
                         location   |-> PyDict([city |-> PyStr(Berlin)]),
                         valid      |-> PyBool(FALSE)])],
      [text  |-> "{intent, place_type}",
       value |-> PyDict([intent     |-> PyText("find cafes"),
                         place_type |-> PyText("cafe")])] }

\* message contents: the JSON texts, a text that is no JSON, the empty text,
\* and no content at all
Contents ==
    { PyText(d.text) : d \in JsonDocs }
      \cup { PyText("Sorry, I cannot help with that."), PyText(""), PyNone }

\* outcomes of openai_client.chat.completions.create(...).choices[0].message.content
LLMOutcomes ==
    { Return(c) : c \in Contents } \cup { Raise("APIError", "Connection error.") }

\* json.loads
json_loads(content) ==
    IF ~IsStr(content)
    THEN Raise("TypeError", "the JSON object must be str, bytes or bytearray")
    ELSE IF \E d \in JsonDocs : d.text = content.v
         THEN Return((CHOOSE d \in JsonDocs : d.text = content.v).value)
         ELSE Raise("JSONDecodeError", "Expecting value: line 1 column 1 (char 0)")

-----------------------------------------------------------------------------
(* QueryClassifier *)

\* the dict returned by the except branch
FallbackClassification(query, message) ==
    PyDict([query_type       |-> PyText("unclassified"),
            confidence       |-> PyFloat(0),
            extracted_params |-> PyDict([error          |-> PyText(message),
                                         original_query |-> query])])

\* ClassifyTry without the isinstance test
ClassifyTry_NoDictTest(llm) ==
    IF llm.raised THEN llm
    ELSE json_loads(llm.value)

\* the try block: the parsed result, or the exception raised in it
ClassifyTry(llm) ==
    IF llm.raised THEN llm
    ELSE LET result == json_loads(llm.value)
         IN  IF result.raised THEN result
             ELSE IF result.value.ty # "dict"
                  THEN Raise("ValueError", "Response is not a dictionary")
                  ELSE result

\* QueryClassifier.classify
QueryClassifier_classify(query, llm) ==
    LET body == ClassifyTry(llm)
    IN  IF body.raised
        THEN Return(FallbackClassification(query, body.msg))
        ELSE body

-----------------------------------------------------------------------------
(* QueryAnalysisAgent *)

\* QueryAnalysisAgent.process
QueryAnalysis_process(params, llm) ==
    IF llm.raised THEN llm
    ELSE LET result == json_loads(llm.value)
         IN  IF result.raised /\ result.exc = "JSONDecodeError"
             THEN Raise("ValueError", "Invalid JSON response from OpenAI")
             ELSE result

required_fields == {"intent", "place_type", "location"}

\* QueryAnalysisAgent.validate_response: all(field in response ...); a JSON
\* string is not among the modelled responses
QueryAnalysis_validate_response(response) ==
    CASE response.ty = "dict" ->
             Return(PyBool(\A f \in required_fields : f \in DOMAIN response.v))
      [] response.ty = "list" ->
             Return(PyBool(\A f \in required_fields :
                               \E i \in 1..Len(response.v) : response.v[i] = PyText(f)))
      [] response.ty \in {"none", "int", "float", "bool"} ->
             Raise("TypeError", "argument is not iterable")

-----------------------------------------------------------------------------
(* LocationAnalysisAgent *)

RECURSIVE StrJoin(_, _)
\* sep.join(parts)
StrJoin(sep, parts) ==
    IF parts = <<>> THEN <<>>
    ELSE IF Len(parts) = 1 THEN parts[1]
    ELSE parts[1] \o sep \o StrJoin(sep, Tail(parts))

\* LocationOf without the branch for a nested location object
LocationOf_NoMapping(params) ==
    LET location == Get(params.v, "location", PyStr(<<>>))
    IN  IF ~Truthy(location) /\ "extracted_params" \in DOMAIN params.v
        THEN LET extracted == params.v["extracted_params"]
             IN  IF extracted.ty = "dict"
                 THEN Return(Get(extracted.v, "location", PyStr(<<>>)))
                 ELSE Return(location)
        ELSE Return(location)

\* lines 12-23: the location the agent works with, or the exception raised
LocationOf(params) ==
    LET location == Get(params.v, "location", PyStr(<<>>))
    IN  IF location.ty = "dict"
        THEN LET area    == Get(location.v, "area", PyStr(<<>>))
                 city    == Get(location.v, "city", PyStr(<<>>))
                 country == Get(location.v, "country", PyStr(<<>>))
                 kept    == SelectSeq(<<area, city, country>>, Truthy)
             IN  IF \E i \in 1..Len(kept) : kept[i].ty # "str"
                 THEN Raise("TypeError", "sequence item: expected str instance")
                 ELSE Return(PyStr(StrJoin(<<" ">>,
                                 [i \in 1..Len(kept) |-> kept[i].v])))
        ELSE IF ~Truthy(location) /\ "extracted_params" \in DOMAIN params.v
             THEN LET extracted == params.v["extracted_params"]
                  IN  IF extracted.ty = "dict"
                      THEN Return(Get(extracted.v, "location", PyStr(<<>>)))
                      ELSE Return(location)
             ELSE Return(location)

\* the requests the agent sends to the provider: none without a location
LocationAnalysis_requests(params) ==
    LET location == LocationOf(params)
    IN  IF ~location.raised /\ Truthy(location.value)
        THEN << [url |-> "geocode/json", address |-> location.value] >>
        ELSE << >>

\* lines 37-47: the result built from the decoded response body
LocationResult(data) ==
    IF data.ty # "dict" THEN Raise("AttributeError", "object has no attribute 'get'")
    ELSE IF Get(data.v, "status", PyNone) # PyText("OK")
    THEN Return(PyDict([valid |-> PyBool(FALSE), error |-> PyText("Location not found")]))
    ELSE IF "results" \notin DOMAIN data.v THEN Raise("KeyError", "results")
    ELSE IF data.v.results.ty # "list" \/ data.v.results.v = <<>>
    THEN Raise("IndexError", "list index out of range")
    ELSE LET result == data.v.results.v[1]
         IN  IF "formatted_address" \notin DOMAIN result.v
             THEN Raise("KeyError", "formatted_address")
             ELSE IF "geometry" \notin DOMAIN result.v
             THEN Raise("KeyError", "geometry")
             ELSE IF "location" \notin DOMAIN result.v.geometry.v
             THEN Raise("KeyError", "location")
             ELSE Return(PyDict(
                 [valid             |-> PyBool(TRUE),
                  formatted_address |-> result.v.formatted_address,
                  coordinates       |-> result.v.geometry.v.location,
                  place_id          |-> Get(result.v, "place_id", PyNone),
                  types             |-> Get(result.v, "types", PyList(<<>>))]))

\* LocationAnalysisAgent.process; geo is the outcome of requests.get(...).json()
LocationAnalysis_process(params, geo) ==
    LET location == LocationOf(params)
    IN  IF location.raised THEN location
        ELSE IF ~Truthy(location.value)
        THEN Return(PyDict([valid |-> PyBool(FALSE),
                            error |-> PyText("Location not provided")]))
        ELSE IF geo.raised THEN geo
        ELSE LocationResult(geo.value)

\* LocationAnalysisAgent.validate_response
LocationAnalysis_validate_response(response) == GetValid(response)

-----------------------------------------------------------------------------
(* PlaceValidationAgent *)

\* the request sent for every call: f"{place_name} {location}"
PlaceValidation_requests(params) ==
    << [url   |-> "place/findplacefromtext/json",
        input |-> << Get(params.v, "place", PyStr(<<>>)),
                     Get(params.v, "location", PyStr(<<>>)) >>] >>

\* PlaceValidationAgent.process; found is the outcome of requests.get(...).json()
PlaceValidation_process(params, found) ==
    IF found.raised THEN found
    ELSE LET data == found.value
         IN  IF data.ty # "dict"
             THEN Raise("AttributeError", "object has no attribute 'get'")
             ELSE IF Get(data.v, "status", PyNone) # PyText("OK")
             THEN Return(PyDict([valid |-> PyBool(FALSE),
                                 error |-> PyText("Place not found")]))
             ELSE IF "candidates" \notin DOMAIN data.v
             THEN Raise("KeyError", "candidates")
             ELSE IF data.v.candidates.ty # "list" \/ data.v.candidates.v = <<>>
             THEN Raise("IndexError", "list index out of range")
             ELSE Return(PyDict([valid         |-> PyBool(TRUE),
                                 place_details |-> data.v.candidates.v[1]]))

\* validate_response testing that valid is there, not what it holds
PlaceValidation_validate_response_KeyPresent(response) ==
    GetValid_KeyPresent(response)

\* PlaceValidationAgent.validate_response
PlaceValidation_validate_response(response) == GetValid(response)

-----------------------------------------------------------------------------
(* AttributeCheckAgent *)

\* lines 12-16: place_id and attribute, or the exception raised reading them
AttributeInputs(params) ==
    LET place_details == Get(params.v, "place_details", PyDict(EmptyMap))
    IN  IF place_details.ty # "dict"
        THEN Raise("AttributeError", "object has no attribute 'get'")
        ELSE Return([place_id  |-> Get(place_details.v, "place_id", PyNone),
                     attribute |-> Get(params.v, "attribute", PyStr(<<>>))])

AttributeComplete(inputs) ==
    Truthy(inputs.place_id) /\ Truthy(inputs.attribute)

\* the requests the agent sends to the provider
AttributeCheck_requests(params) ==
    LET inputs == AttributeInputs(params)
    IN  IF ~inputs.raised /\ AttributeComplete(inputs.value)
        THEN << [url |-> "place/details/json", place_id |-> inputs.value.place_id] >>
        ELSE << >>

\* AttributeCheckAgent.process; details is the outcome of
\* requests.get(...).json(), llm that of the completion
AttributeCheck_process(params, details, llm) ==
    LET inputs == AttributeInputs(params)
    IN  IF inputs.raised THEN inputs
        ELSE IF ~AttributeComplete(inputs.value)
        THEN Return(PyDict([valid |-> PyBool(FALSE),
                            error |-> PyText("Missing place_id or attribute")]))
        ELSE IF details.raised THEN details
        ELSE IF details.value.ty # "dict"
        THEN Raise("AttributeError", "object has no attribute 'get'")
        ELSE IF Get(details.value.v, "status", PyNone) # PyText("OK")
        THEN Return(PyDict([valid |-> PyBool(FALSE),
                            error |-> PyText("Could not fetch place details")]))
        ELSE IF "result" \notin DOMAIN details.value.v THEN Raise("KeyError", "result")
        ELSE IF llm.raised THEN llm
        ELSE Return(PyDict([valid              |-> PyBool(TRUE),
                            attribute_analysis |-> llm.value]))

\* AttributeCheckAgent.validate_response
AttributeCheck_validate_response(response) == GetValid(response)

-----------------------------------------------------------------------------
(* GenericQueryAgent *)

\* GenericQueryAgent.process
GenericQuery_process(params, llm) ==
    IF llm.raised THEN llm
    ELSE Return(PyDict([valid         |-> PyBool(TRUE),
                        response_text |-> llm.value]))

\* GenericQueryAgent.validate_response:
\* response.get("valid", False) and "response_text" in response
GenericQuery_validate_response(response) ==
    LET valid == GetValid(response)
    IN  IF valid.raised THEN valid
        ELSE IF ~Truthy(valid.value) THEN valid
        ELSE Return(PyBool("response_text" \in DOMAIN response.v))

-----------------------------------------------------------------------------
(* AgentFactory *)

\* AgentFactory._agents: type name -> agent class
AgentFactory_agents ==
    [n \in {"QueryAnalysisAgent", "LocationAnalysisAgent", "TimeAnalysisAgent",
            "PlaceValidationAgent", "AttributeCheckAgent", "GenericQueryAgent"}
        |-> n]

\* the keyword dependencies a caller can hand to create_agent
Dependencies == {"google_api_key", "openai_client"}

\* the keywords each class's __init__ declares without a default; every
\* __init__ takes **kwargs besides, so a further keyword is accepted
Agent_init_required(class) ==
    CASE class = "QueryAnalysisAgent"    -> {"openai_client"}
      [] class = "LocationAnalysisAgent" -> {"google_api_key"}
      [] class = "TimeAnalysisAgent"     -> {}
      [] class = "PlaceValidationAgent"  -> {"google_api_key"}
      [] class = "AttributeCheckAgent"   -> {"google_api_key", "openai_client"}
      [] class = "GenericQueryAgent"     -> {"openai_client"}

\* class(**kwargs): the class of the instance, or the TypeError of a call
\* that lacks a required keyword
Agent_init(class, kwargs) ==
    IF Agent_init_required(class) \subseteq kwargs
    THEN Return(class)
    ELSE Raise("TypeError", "__init__() missing required positional argument")

\* create_agent answering an unknown name with the generic agent
AgentFactory_create_agent_DefaultGeneric(agent_type, kwargs) ==
    IF agent_type \notin DOMAIN agents
    THEN Agent_init("GenericQueryAgent", kwargs)
    ELSE Agent_init(agents[agent_type], kwargs)

\* AgentFactory.create_agent(agent_type, **kwargs): the class of the
\* instance returned
AgentFactory_create_agent(agent_type, kwargs) ==
    IF agent_type \notin DOMAIN agents
    THEN Raise("ValueError", "Unknown agent type: " \o agent_type)
    ELSE Agent_init(agents[agent_type], kwargs)

\* agent.validate_response(response), dispatched on the agent's class
Agent_validate_response(class, response) ==
    CASE class = "QueryAnalysisAgent"    -> QueryAnalysis_validate_response(response)
      [] class = "LocationAnalysisAgent" -> LocationAnalysis_validate_response(response)
      [] class = "TimeAnalysisAgent"     -> TimeAnalysis_validate_response(response)
      [] class = "PlaceValidationAgent"  -> PlaceValidation_validate_response(response)
      [] class = "AttributeCheckAgent"   -> AttributeCheck_validate_response(response)
      [] class = "GenericQueryAgent"     -> GenericQuery_validate_response(response)

\* the collaborator outcomes one process call consumes
NoCalls == [llm |-> Return(PyNone), http |-> Return(PyNone)]

\* agent.process(params), dispatched on the agent's class
Agent_process(class, params, calls) ==
    CASE class = "QueryAnalysisAgent"    -> QueryAnalysis_process(params, calls.llm)
      [] class = "LocationAnalysisAgent" -> LocationAnalysis_process(params, calls.http)
      [] class = "TimeAnalysisAgent"     -> TimeAnalysis_process(params)
      [] class = "PlaceValidationAgent"  -> PlaceValidation_process(params, calls.http)
      [] class = "AttributeCheckAgent"   ->
             AttributeCheck_process(params, calls.http, calls.llm)
      [] class = "GenericQueryAgent"     -> GenericQuery_process(params, calls.llm)

\* the provider requests agent.process(params) sends
Agent_requests(class, params) ==
    CASE class = "LocationAnalysisAgent" -> LocationAnalysis_requests(params)
      [] class = "PlaceValidationAgent"  -> PlaceValidation_requests(params)
      [] class = "AttributeCheckAgent"   -> AttributeCheck_requests(params)
      [] OTHER                           -> << >>

-----------------------------------------------------------------------------
(* The caller's context mapping across a call of process.  process receives *)
(* a reference to the mapping under the name params.  The statements of a   *)
(* process are those that assign to that name or store through it:          *)
(*   "assign"  - params = value: the name is bound to another object,       *)
(*   "setitem" - params[key] = value: the object the name refers to changes. *)

\* params[key] = value
SetItem(d, key, value) ==
    PyDict([k \in DOMAIN d.v \cup {key} |-> IF k = key THEN value ELSE d.v[k]])

RECURSIVE Executed(_, _, _)
\* the mapping the caller handed over, after the statements; bound tells
\* whether the name params still refers to that mapping
Executed(d, statements, bound) ==
    IF statements = << >> THEN d
    ELSE IF statements[1].stmt = "assign"
         THEN Executed(d, Tail(statements), FALSE)
         ELSE Executed(IF bound
                       THEN SetItem(d, statements[1].key, statements[1].value)
                       ELSE d,
                       Tail(statements), bound)

\* the request parameters of line 29-32 written into params item by item
LocationAnalysis_statements_InPlace(params) ==
    LET location == LocationOf(params)
    IN  IF ~location.raised /\ Truthy(location.value)
        THEN << [stmt |-> "setitem", key |-> "address", value |-> location.value],
                [stmt |-> "setitem", key |-> "key",
                 value |-> PyText("google_api_key")] >>
        ELSE << >>

\* LocationAnalysisAgent.process: params is read with get, in and []; once
\* a location is there, line 29 assigns a new mapping {address, key} to the
\* name params
LocationAnalysis_statements(params) ==
    LET location == LocationOf(params)
    IN  IF ~location.raised /\ Truthy(location.value)
        THEN << [stmt |-> "assign", key |-> "",
                 value |-> PyDict([address |-> location.value,
                                   key     |-> PyText("google_api_key")])] >>
        ELSE << >>

\* TimeAnalysisAgent.process: params and temporal are read with get
TimeAnalysis_statements(params) == << >>

\* AttributeCheckAgent.process: params and place_details are read with get;
\* the request parameters are a new mapping under the name details_params
AttributeCheck_statements(params) == << >>

\* PlaceValidationAgent.process: params is read with get; the request
\* parameters are a new mapping under the name search_params
PlaceValidation_statements(params) == << >>

\* QueryAnalysisAgent.process: params is read with get
QueryAnalysis_statements(params) == << >>

\* GenericQueryAgent.process: params is read with get
GenericQuery_statements(params) == << >>

-----------------------------------------------------------------------------
(* Responses of the mapping provider *)

GeocodeBodies ==
    { PyDict([status  |-> PyText("OK"),
              results |-> PyList(<< PyDict(
                  [formatted_address |-> PyText("Berlin, Germany"),
                   geometry |-> PyDict([location |->
                       PyDict([lat |-> PyFloat(5252), lng |-> PyFloat(1340)])]),
                   place_id |-> PyText("ChIJAVkDPzdOqEcRcDteW0YgIQQ"),
                   types    |-> PyList(<<PyText("locality")>>)]) >>)]),
      PyDict([status  |-> PyText("OK"),
              results |-> PyList(<< PyDict(
                  [formatted_address |-> PyText("Mitte, Berlin, Germany"),
                   geometry |-> PyDict([location |->
                       PyDict([lat |-> PyFloat(5253), lng |-> PyFloat(1338)])])]) >>)]),
      PyDict([status |-> PyText("OK"), results |-> PyList(<<>>)]),
      PyDict([status |-> PyText("ZERO_RESULTS"), results |-> PyList(<<>>)]),
      PyDict([status |-> PyText("REQUEST_DENIED")]),
      PyDict(EmptyMap) }

FindPlaceBodies ==
    { PyDict([status     |-> PyText("OK"),
              candidates |-> PyList(<<
                  PyDict([place_id |-> PyText("ChIJ-starbucks-1"),
                          name     |-> PyText("Starbucks"),
                          formatted_address |-> PyText("Friedrichstr. 1, Berlin")]),
                  PyDict([place_id |-> PyText("ChIJ-starbucks-2"),
                          name     |-> PyText("Starbucks"),
                          formatted_address |-> PyText("Alexanderplatz 3, Berlin")]) >>)]),
      PyDict([status     |-> PyText("OK"),
              candidates |-> PyList(<< PyDict([name |-> PyText("Starbucks")]) >>)]),
      PyDict([status |-> PyText("OK"), candidates |-> PyList(<<>>)]),
      PyDict([status |-> PyText("ZERO_RESULTS"), candidates |-> PyList(<<>>)]),
      PyDict([status |-> PyText("REQUEST_DENIED")]) }

DetailsBodies ==
    { PyDict([status |-> PyText("OK"),
              result |-> PyDict([name  |-> PyText("Starbucks"),
                                 types |-> PyList(<<PyText("cafe")>>)])]),
      PyDict([status |-> PyText("OK")]),
      PyDict([status |-> PyText("NOT_FOUND")]) }

\* outcomes of requests.get(...).json(): a decoded body, or an exception
HttpOutcomes(bodies) ==
    { Return(b) : b \in bodies } \cup { Raise("ConnectionError", "Connection refused") }

-----------------------------------------------------------------------------
(* Inputs of the unit calls *)

MaxHour == 13          \* time strings carry the hours 0..MaxHour

UpperChar(c) ==
    IF \E i \in 1..26 : LowerChars[i] = c
    THEN UpperChars[CHOOSE i \in 1..26 : LowerChars[i] = c]
    ELSE c
StrUpper(s)      == [i \in 1..Len(s) |-> UpperChar(s[i])]
StrCapitalize(s) == [i \in 1..Len(s) |-> IF i = 1 THEN UpperChar(s[i]) ELSE s[i]]

CanonicalDays == DOMAIN day_mapping

\* day values: the canonical names in three letter cases, other strings, a
\* value that is no string
DayStrings ==
    CanonicalDays
      \cup { StrUpper(d) : d \in CanonicalDays }
      \cup { StrCapitalize(d) : d \in CanonicalDays }
      \cup { <<>>, <<"m","o","n">>, <<" ","m","o","n","d","a","y">>,
             <<"t","o","d","a","y">> }
DayValues == { PyStr(d) : d \in DayStrings } \cup { PyNone }

PlainMeridiems == { <<"a","m">>, <<"p","m">> }
\* the same markers with capitals and with periods
MarkedMeridiems ==
    { <<"A","M">>, <<"P","M">>, <<"P","m">>,
      <<"a",".","m",".">>, <<"p",".","m",".">>,
      <<"A",".","M",".">>, <<"P",".","M",".">> }
Meridiems == PlainMeridiems \cup MarkedMeridiems

\* "H am": the hour, one space, the marker
TimeOf(h, m) == StrOfNat(h) \o <<" ">> \o m

TimeStrings ==
    { TimeOf(h, m) : h \in 0..MaxHour, m \in Meridiems }
      \cup { StrOfNat(h) \o m : h \in 0..MaxHour, m \in PlainMeridiems }
      \cup { StrOfNat(h) : h \in 0..MaxHour }
      \cup { <<>>, <<"n","o","o","n">>, <<"p","m">>, <<" ","7"," ","p","m"," ">> }
TimeValues ==
    { PyStr(t) : t \in TimeStrings }
      \cup { PyInt(23), PyInt(0), PyNone, PyList(<<PyInt(9)>>) }

\* temporal mappings {day, time}, with either key possibly absent
TemporalDicts ==
    { PyDict([day |-> d, time |-> t]) : d \in DayValues, t \in TimeValues }
      \cup { PyDict([day |-> d]) : d \in DayValues }
      \cup { PyDict([time |-> t]) : t \in TimeValues }
      \cup { PyDict([day |-> PyStr(<<>>), time |-> PyStr(<<"9"," ","a","m">>),
                     time_context |-> PyText("open_from")]) }

\* contexts handed to TimeAnalysisAgent.process
TimeParams ==
    { PyDict([query |-> PyText("q1"), temporal |-> t]) : t \in TemporalDicts }
      \cup { PyDict([query |-> PyText("q1")]),
             PyDict([query |-> PyText("q1"), temporal |-> PyDict(EmptyMap)]),
             PyDict([query |-> PyText("q1"), temporal |-> PyStr(<<>>)]),
             PyDict([query |-> PyText("q1"), temporal |-> PyText("tonight")]),
             PyDict([query |-> PyText("q1"), temporal |-> PyNone]),
             PyDict([query |-> PyText("q1"), temporal |-> PyInt(0)]),
             PyDict([query |-> PyText("q1"), temporal |-> PyInt(7)]),
             PyDict([query |-> PyText("q1"), temporal |-> PyList(<<>>)]),
             PyDict([query |-> PyText("q1"),
                     temporal |-> PyList(<<PyText("friday")>>)]),
             PyDict(EmptyMap) }

Queries ==
    { PyText("vegan restaurants in Berlin open till 11 pm"),
      PyText("does Starbucks have wifi"), PyText("asdkjasd"), PyText("") }

QueryParams == { PyDict([query |-> q]) : q \in Queries } \cup { PyDict(EmptyMap) }

\* contexts handed to LocationAnalysisAgent.process
LocationParams ==
    { PyDict([query |-> PyText("q1"), location |-> l]) :
          l \in { PyStr(Berlin), PyStr(<<>>), PyNone,
                  PyDict([area |-> PyStr(Mitte), city |-> PyStr(Berlin),
                          country |-> PyStr(Germany)]),
                  PyDict([city |-> PyStr(Berlin)]),
                  PyDict([area |-> PyStr(<<>>), city |-> PyStr(<<>>)]),
                  PyDict([city |-> PyInt(7)]),
                  PyDict(EmptyMap) } }
      \cup { PyDict([query |-> PyText("q1")]),
             PyDict([query |-> PyText("q1"),
                     extracted_params |-> PyDict([location |-> PyStr(Berlin)])]),
             PyDict([query |-> PyText("q1"), location |-> PyStr(<<>>),
                     extracted_params |-> PyDict([location |-> PyStr(Mitte)])]),
             PyDict([query |-> PyText("q1"),
                     extracted_params |-> PyDict(EmptyMap)]),
             PyDict([query |-> PyText("q1"),
                     extracted_params |-> PyText("none")]) }

\* contexts handed to PlaceValidationAgent.process
PlaceParams ==
    { PyDict([query |-> PyText("q2"), place |-> PyText("Starbucks"),
              attribute |-> PyText("wifi")]),
      PyDict([query |-> PyText("q2"), place |-> PyText("Starbucks"),
              location |-> PyStr(Berlin)]),
      PyDict([query |-> PyText("q2")]) }

\* contexts handed to AttributeCheckAgent.process
AttributeParams ==
    { PyDict([query |-> PyText("q2"), attribute |-> PyText("wifi"),
              place_details |-> PyDict([place_id |-> PyText("ChIJ-starbucks-1"),
                                        name     |-> PyText("Starbucks")])]),
      PyDict([query |-> PyText("q2"), attribute |-> PyText("wifi"),
              place_details |-> PyDict([name |-> PyText("Starbucks")])]),
      PyDict([query |-> PyText("q2"),
              place_details |-> PyDict([place_id |-> PyText("ChIJ-starbucks-1")])]),
      PyDict([query |-> PyText("q2"), attribute |-> PyText("wifi")]),
      PyDict([query |-> PyText("q2"), attribute |-> PyText("wifi"),
              place_details |-> PyText("Starbucks")]) }

\* the completions the attribute judgment and the generic answer draw on
AnswerOutcomes ==
    { Return(PyText("{\"has_attribute\": true, \"confidence\": 0.8}")),
      Return(PyText("Try asking for a place, a time or an attribute.")),
      Return(PyText("")), Return(PyNone),
      Raise("APIError", "Connection error.") }

\* what the unit calls of process return, over all their inputs
ProcessResults ==
    { r.value : r \in
        { o \in { TimeAnalysis_process(p) : p \in TimeParams }
                  \cup { QueryAnalysis_process(p, l) :
                             p \in QueryParams, l \in LLMOutcomes }
                  \cup { LocationAnalysis_process(p, g) :
                             p \in LocationParams, g \in HttpOutcomes(GeocodeBodies) }
                  \cup { PlaceValidation_process(p, f) :
                             p \in PlaceParams, f \in HttpOutcomes(FindPlaceBodies) }
                  \cup { AttributeCheck_process(p, d, l) :
                             p \in AttributeParams, d \in HttpOutcomes(DetailsBodies),
                             l \in AnswerOutcomes }
                  \cup { GenericQuery_process(p, l) :
                             p \in QueryParams, l \in AnswerOutcomes }
            : ~o.raised } }

\* responses handed to validate_response: the results above, and mappings
\* with and without each of the fields the predicates look at
Responses ==
    ProcessResults
      \cup { PyDict(EmptyMap),
             PyDict([valid |-> PyBool(FALSE)]),
             PyDict([valid |-> PyBool(TRUE)]),
             PyDict([valid |-> PyBool(FALSE), response_text |-> PyText("hello")]),
             PyDict([response_text |-> PyText("hello")]),
             PyDict([valid |-> PyBool(FALSE), intent |-> PyText("find"),
                     place_type |-> PyText("cafe"), location |-> PyStr(<<>>)]),
             PyDict([valid |-> PyBool(TRUE), intent |-> PyText("find"),
                     place_type |-> PyText("cafe"), location |-> PyStr(Berlin)]) }

-----------------------------------------------------------------------------
(* Unit calls: one operation of the classifier or of an agent, applied once *)
(* to an input.                                                            *)

CallTimeProcess ==
    \E params \in TimeParams :
        /\ op = "none"
        /\ op'  = "TimeAnalysisAgent.process"
        /\ arg' = [params |-> params]
        /\ ret' = TimeAnalysis_process(params)
        /\ held' = Executed(params, TimeAnalysis_statements(params), TRUE)
        /\ UNCHANGED agents
        /\ UNCHANGED pipeline

CallClassify ==
    \E query \in Queries, llm \in LLMOutcomes :
        /\ op = "none"
        /\ op'  = "QueryClassifier.classify"
        /\ arg' = [query |-> query, llm |-> llm]
        /\ ret' = QueryClassifier_classify(query, llm)
        /\ UNCHANGED <<agents, held>>
        /\ UNCHANGED pipeline

CallQueryAnalysisProcess ==
    \E params \in QueryParams, llm \in LLMOutcomes :
        /\ op = "none"
        /\ op'  = "QueryAnalysisAgent.process"
        /\ arg' = [params |-> params, llm |-> llm]
        /\ ret' = QueryAnalysis_process(params, llm)
        /\ held' = Executed(params, QueryAnalysis_statements(params), TRUE)
        /\ UNCHANGED agents
        /\ UNCHANGED pipeline

CallLocationProcess ==
    \E params \in LocationParams, geo \in HttpOutcomes(GeocodeBodies) :
        /\ op = "none"
        /\ op'  = "LocationAnalysisAgent.process"
        /\ arg' = [params |-> params, http |-> geo]
        /\ ret' = LocationAnalysis_process(params, geo)
        /\ held' = Executed(params, LocationAnalysis_statements(params), TRUE)
        /\ UNCHANGED agents
        /\ UNCHANGED pipeline

CallPlaceValidationProcess ==
    \E params \in PlaceParams, found \in HttpOutcomes(FindPlaceBodies) :
        /\ op = "none"
        /\ op'  = "PlaceValidationAgent.process"
        /\ arg' = [params |-> params, http |-> found]
        /\ ret' = PlaceValidation_process(params, found)
        /\ held' = Executed(params, PlaceValidation_statements(params), TRUE)
        /\ UNCHANGED agents
        /\ UNCHANGED pipeline

CallAttributeCheckProcess ==
    \E params \in AttributeParams, details \in HttpOutcomes(DetailsBodies),
       llm \in AnswerOutcomes :
        /\ op = "none"
        /\ op'  = "AttributeCheckAgent.process"
        /\ arg' = [params |-> params, http |-> details, llm |-> llm]
        /\ ret' = AttributeCheck_process(params, details, llm)
        /\ held' = Executed(params, AttributeCheck_statements(params), TRUE)
        /\ UNCHANGED agents
        /\ UNCHANGED pipeline

CallGenericQueryProcess ==
    \E params \in QueryParams, llm \in AnswerOutcomes :
        /\ op = "none"
        /\ op'  = "GenericQueryAgent.process"
        /\ arg' = [params |-> params, llm |-> llm]
        /\ ret' = GenericQuery_process(params, llm)
        /\ held' = Executed(params, GenericQuery_statements(params), TRUE)
        /\ UNCHANGED agents
        /\ UNCHANGED pipeline

\* names handed to create_agent: the six registered ones, and others
AgentTypeNames ==
    DOMAIN AgentFactory_agents
      \cup { "OrchestratorAgent", "QueryClassifier", "queryanalysisagent",
             "TimeAnalysis", "" }

\* keyword arguments of a create_agent call
KwargSets == SUBSET (Dependencies \cup {"timeout"})

CallCreateAgent ==
    \E agent_type \in AgentTypeNames, kwargs \in KwargSets :
        /\ op = "none"
        /\ op'  = "AgentFactory.create_agent"
        /\ arg' = [agent_type |-> agent_type, kwargs |-> kwargs, agents |-> agents]
        /\ ret' = AgentFactory_create_agent(agent_type, kwargs)
        /\ UNCHANGED <<agents, held>>
        /\ UNCHANGED pipeline

CallParseTime ==
    \E time_str \in { PyStr(t) : t \in TimeStrings } :
        /\ op = "none"
        /\ op'  = "GoogleMapsLLMIntegration._parse_time"
        /\ arg' = [time_str |-> time_str]
        /\ ret' = parse_time(time_str)
        /\ UNCHANGED <<agents, held>>
        /\ UNCHANGED pipeline

CallValidateResponse ==
    \E class \in DOMAIN AgentFactory_agents, response \in Responses :
        /\ op = "none"
        /\ op'  = "validate_response"
        /\ arg' = [class |-> class, response |-> response]
        /\ ret' = Agent_validate_response(class, response)
        /\ UNCHANGED <<agents, held>>
        /\ UNCHANGED pipeline

UnitInit ==
    /\ pc = "Idle"
    /\ request = PyNone
    /\ classification = PyNone
    /\ sequence = << >>
    /\ stage = 0
    /\ Context = PyDict(EmptyMap)
    /\ trace = << >>
    /\ payload = PyNone
    /\ op  = "none"
    /\ arg = [params |-> PyNone]
    /\ ret = Return(PyNone)
    /\ agents = AgentFactory_agents
    /\ held = PyNone

UnitNext ==
    \/ CallClassify
    \/ CallQueryAnalysisProcess
    \/ CallLocationProcess
    \/ CallTimeProcess
    \/ CallPlaceValidationProcess
    \/ CallAttributeCheckProcess
    \/ CallGenericQueryProcess
    \/ CallValidateResponse
    \/ CallCreateAgent
    \/ CallParseTime

UnitSpec == UnitInit /\ [][UnitNext]_vars

-----------------------------------------------------------------------------
(* Pipeline Orchestrator: one request, from the query to the response.     *)
(* Received -> Classified -> Running(stage) -> Completed | Failed           *)

\* RoutingTable with Time Analysis added to the nearby_search row
RoutingTable_NearbyWithTime(query_type) ==
    CASE query_type = PyText("place_search_temporal") ->
             <<"QueryAnalysisAgent", "LocationAnalysisAgent", "TimeAnalysisAgent">>
      [] query_type = PyText("place_attribute_check") ->
             <<"PlaceValidationAgent", "AttributeCheckAgent">>
      [] query_type = PyText("nearby_search") ->
             <<"LocationAnalysisAgent", "TimeAnalysisAgent">>
      [] OTHER -> <<"GenericQueryAgent">>

\* the routing table: query type -> ordered agent type names
RoutingTable(query_type) ==
    CASE query_type = PyText("place_search_temporal") ->
             <<"QueryAnalysisAgent", "LocationAnalysisAgent", "TimeAnalysisAgent">>
      [] query_type = PyText("place_attribute_check") ->
             <<"PlaceValidationAgent", "AttributeCheckAgent">>
      [] query_type = PyText("nearby_search") -> <<"LocationAnalysisAgent">>
      [] OTHER -> <<"GenericQueryAgent">>

\* the context a run starts with: extracted_params plus the query
InitialContext(c, q) ==
    LET extracted == Get(c.v, "extracted_params", PyDict(EmptyMap))
    IN  PyDict([k \in (IF extracted.ty = "dict" THEN DOMAIN extracted.v ELSE {})
                         \cup {"query"} |->
                    IF k = "query" THEN q ELSE extracted.v[k]])

\* result merged into the context, result winning on a shared key
Merge(ctx, result) ==
    PyDict([k \in DOMAIN ctx.v \cup DOMAIN result.v |->
                IF k \in DOMAIN result.v THEN result.v[k] ELSE ctx.v[k]])

\* the failure response: the failing agent and its stage index, no results
FailurePayload(agent, index, message) ==
    PyDict([error |-> PyText(message), agent |-> PyText(agent), stage |-> PyInt(index)])

\* the response of a completed run
SuccessPayload(c, ctx) ==
    PyDict([query_type |-> Get(c.v, "query_type", PyNone),
            confidence |-> Get(c.v, "confidence", PyNone),
            results    |-> ctx])

\* the request is classified
Classify ==
    \E llm \in LLMOutcomes :
        /\ pc = "Received"
        /\ classification' = QueryClassifier_classify(request, llm).value
        /\ pc' = "Classified"
        /\ UNCHANGED <<request, sequence, stage, Context, trace, payload, op, arg, ret, agents, held>>

\* the agent sequence is selected and the context initialised
SelectSequence ==
    /\ pc = "Classified"
    /\ sequence' = RoutingTable(Get(classification.v, "query_type", PyNone))
    /\ Context' = InitialContext(classification, request)
    /\ stage' = 0
    /\ pc' = "Running"
    /\ UNCHANGED <<request, classification, trace, payload, op, arg, ret, agents, held>>

\* validate_response on what process returned; a raise of process stands
Checked(class, outcome) ==
    IF outcome.raised THEN outcome
    ELSE Agent_validate_response(class, outcome.value)

\* the stage passes: process returned a mapping and validate_response
\* returned a true value
Passed(outcome, checked) ==
    /\ ~outcome.raised
    /\ ~checked.raised
    /\ Truthy(checked.value)
    /\ outcome.value.ty = "dict"

\* the end of a stage: the result is merged and the run advances, or the
\* run fails with the agent and the stage index
Settle(agent, class, outcome, passed) ==
    /\ trace' = Append(trace, [agent    |-> agent,
                               class    |-> class,
                               seen     |-> Context,
                               requests |-> Agent_requests(class, Context),
                               outcome  |-> outcome,
                               passed   |-> passed])
    /\ Context' = IF passed THEN Merge(Context, outcome.value) ELSE Context
    /\ stage' = IF passed THEN stage + 1 ELSE stage
    /\ pc' = IF passed THEN "Running" ELSE "Failed"
    /\ payload' = IF passed THEN payload
                  ELSE FailurePayload(agent, stage,
                           IF outcome.raised THEN outcome.msg ELSE "validation failed")

\* process and validate_response of the created agent
Execute(agent, class, outcome) ==
    Settle(agent, class, outcome, Passed(outcome, Checked(class, outcome)))

\* the agent is created, or the run fails on an unknown agent type
Create(agent, created, calls) ==
    IF created.raised
    THEN /\ pc' = "Failed"
         /\ payload' = FailurePayload(agent, stage, created.msg)
         /\ UNCHANGED <<Context, stage, trace>>
    ELSE Execute(agent, created.value, Agent_process(created.value, Context, calls))

\* the next agent of the sequence is of the type named
NextAgentIs(agent) ==
    /\ pc = "Running"
    /\ stage < Len(sequence)
    /\ sequence[stage + 1] = agent

\* one stage: create the agent, process the context, validate the result,
\* then merge it and advance, or fail the run
RunStage(agent, calls) ==
    Create(agent, AgentFactory_create_agent(agent, Dependencies), calls)

RunQueryAnalysis ==
    \E llm \in LLMOutcomes :
        /\ NextAgentIs("QueryAnalysisAgent")
        /\ RunStage("QueryAnalysisAgent", [llm |-> llm, http |-> Return(PyNone)])
        /\ UNCHANGED <<request, classification, sequence, op, arg, ret, agents, held>>

RunLocationAnalysis ==
    \E geo \in HttpOutcomes(GeocodeBodies) :
        /\ NextAgentIs("LocationAnalysisAgent")
        /\ RunStage("LocationAnalysisAgent", [llm |-> Return(PyNone), http |-> geo])
        /\ UNCHANGED <<request, classification, sequence, op, arg, ret, agents, held>>

RunTimeAnalysis ==
    /\ NextAgentIs("TimeAnalysisAgent")
    /\ RunStage("TimeAnalysisAgent", NoCalls)
    /\ UNCHANGED <<request, classification, sequence, op, arg, ret, agents, held>>

RunPlaceValidation ==
    \E found \in HttpOutcomes(FindPlaceBodies) :
        /\ NextAgentIs("PlaceValidationAgent")
        /\ RunStage("PlaceValidationAgent", [llm |-> Return(PyNone), http |-> found])
        /\ UNCHANGED <<request, classification, sequence, op, arg, ret, agents, held>>

RunAttributeCheck ==
    \E details \in HttpOutcomes(DetailsBodies), llm \in AnswerOutcomes :
        /\ NextAgentIs("AttributeCheckAgent")
        /\ RunStage("AttributeCheckAgent", [llm |-> llm, http |-> details])
        /\ UNCHANGED <<request, classification, sequence, op, arg, ret, agents, held>>

RunGenericQuery ==
    \E llm \in AnswerOutcomes :
        /\ NextAgentIs("GenericQueryAgent")
        /\ RunStage("GenericQueryAgent", [llm |-> llm, http |-> Return(PyNone)])
        /\ UNCHANGED <<request, classification, sequence, op, arg, ret, agents, held>>

\* every agent of the sequence has passed: the context is the result
Complete ==
    /\ pc = "Running"
    /\ stage = Len(sequence)
    /\ pc' = "Completed"
    /\ payload' = SuccessPayload(classification, Context)
    /\ UNCHANGED <<request, classification, sequence, stage, Context, trace, op, arg, ret, agents, held>>

Init ==
    /\ pc = "Received"
    /\ request \in Queries
    /\ classification = PyNone
    /\ sequence = << >>
    /\ stage = 0
    /\ Context = PyDict(EmptyMap)
    /\ trace = << >>
    /\ payload = PyNone
    /\ op  = "none"
    /\ arg = [params |-> PyNone]
    /\ ret = Return(PyNone)
    /\ agents = AgentFactory_agents
    /\ held = PyNone

Next ==
    \/ Classify
    \/ SelectSequence
    \/ RunQueryAnalysis
    \/ RunLocationAnalysis
    \/ RunTimeAnalysis
    \/ RunPlaceValidation
    \/ RunAttributeCheck
    \/ RunGenericQuery
    \/ Complete

Spec == Init /\ [][Next]_vars

-----------------------------------------------------------------------------
(* Properties of the classifier and of the agent contract (UnitSpec) *)

QueryTypes ==
    {"place_search_temporal", "place_attribute_check", "nearby_search", "unclassified"}

ClassifyCalled == op = "QueryClassifier.classify"

\* the message content of the call is the text of a JSON document
ContentIsJson ==
    /\ ~arg.llm.raised
    /\ IsStr(arg.llm.value)
    /\ \E d \in JsonDocs : d.text = arg.llm.value.v

\* the value the content denotes is a mapping
ContentIsMapping ==
    /\ ContentIsJson
    /\ \A d \in JsonDocs : d.text = arg.llm.value.v => d.value.ty = "dict"

\* the returned value is the fallback classification for the query of the call
IsFallback(c) ==
    /\ c.ty = "dict"
    /\ DOMAIN c.v = {"query_type", "confidence", "extracted_params"}
    /\ c.v.query_type = PyText("unclassified")
    /\ c.v.confidence = PyFloat(0)
    /\ c.v.extracted_params.ty = "dict"
    /\ DOMAIN c.v.extracted_params.v = {"error", "original_query"}
    /\ c.v.extracted_params.v.error.ty = "text"
    /\ c.v.extracted_params.v.original_query = arg.query

\* C1: classify never raises; when the language-model call throws, when its
\* output is not parseable JSON, or when the parsed value is not a mapping,
\* it returns exactly the fallback classification, with the message of the
\* failure as error and the query as original_query.
C1_ClassifyNeverRaises ==
    ClassifyCalled =>
        /\ ~ret.raised
        /\ ~ContentIsMapping => IsFallback(ret.value)
        /\ arg.llm.raised =>
               ret.value.v.extracted_params.v.error = PyText(arg.llm.msg)
        /\ (ContentIsJson /\ ~ContentIsMapping) =>
               ret.value.v.extracted_params.v.error
                   = PyText("Response is not a dictionary")

C1_Witness ==
    /\ ClassifyCalled
    /\ ContentIsJson
    /\ ~ContentIsMapping
    /\ IsFallback(ret.value)

\* C2: every classification classify returns, for any collaborator output,
\* has a query_type among the four query types, a confidence and an
\* extracted_params mapping.
C2_ClassificationShape ==
    ClassifyCalled =>
        /\ ~ret.raised
        /\ ret.value.ty = "dict"
        /\ {"query_type", "confidence", "extracted_params"} \subseteq DOMAIN ret.value.v
        /\ ret.value.v.query_type \in { PyText(t) : t \in QueryTypes }
        /\ ret.value.v.extracted_params.ty = "dict"

ProcessOps ==
    { "QueryAnalysisAgent.process", "LocationAnalysisAgent.process",
      "TimeAnalysisAgent.process", "PlaceValidationAgent.process",
      "AttributeCheckAgent.process", "GenericQueryAgent.process" }

\* the result is a mapping with a boolean valid field
HasBooleanValid(result) ==
    /\ result.ty = "dict"
    /\ "valid" \in DOMAIN result.v
    /\ result.v.valid.ty = "bool"

\* C6: every result returned by any agent's process contains a boolean valid
\* field.
C6_ResultHasValid ==
    (op \in ProcessOps /\ ~ret.raised) => HasBooleanValid(ret.value)

\* C6 as amended: every result returned by the process of Location Analysis,
\* Time Analysis, Place Validation, Attribute Check and Generic Query
\* contains a boolean valid field; Query Analysis returns the value the
\* model's JSON denotes, to which it adds no valid field.
C6_ResultHasValidExceptQueryAnalysis ==
    /\ (op \in ProcessOps \ {"QueryAnalysisAgent.process"} /\ ~ret.raised)
           => HasBooleanValid(ret.value)
    /\ (op = "QueryAnalysisAgent.process" /\ ~ret.raised)
           => /\ ContentIsJson
              /\ \E d \in JsonDocs : d.text = arg.llm.value.v /\ d.value = ret.value

C6_Witness ==
    /\ op = "TimeAnalysisAgent.process"
    /\ "temporal" \notin DOMAIN arg.params.v
    /\ ~ret.raised
    /\ HasBooleanValid(ret.value)
    /\ ret.value.v.valid = PyBool(TRUE)

ValidateCalled == op = "validate_response"

\* the response reports a failure: valid = false
ReportsFailure(response) ==
    /\ response.ty = "dict"
    /\ "valid" \in DOMAIN response.v
    /\ response.v.valid = PyBool(FALSE)

\* C7: for every agent and every result with valid = false, that agent's
\* validate_response returns false.
C7_GateChecksValid ==
    (ValidateCalled /\ ReportsFailure(arg.response))
        => /\ ~ret.raised
           /\ ~Truthy(ret.value)

\* C7 as amended: for every agent other than Query Analysis and every result
\* with valid = false, validate_response returns false; Query Analysis's
\* validate_response does not look at valid: on a mapping it returns true
\* exactly when intent, place_type and location are all present.
C7_GateChecksValidExceptQueryAnalysis ==
    /\ (ValidateCalled /\ arg.class # "QueryAnalysisAgent"
            /\ ReportsFailure(arg.response))
           => /\ ~ret.raised
              /\ ~Truthy(ret.value)
    /\ (ValidateCalled /\ arg.class = "QueryAnalysisAgent"
            /\ arg.response.ty = "dict")
           => ret = Return(PyBool({"intent", "place_type", "location"}
                                      \subseteq DOMAIN arg.response.v))

C7_Witness ==
    /\ ValidateCalled
    /\ arg.class = "GenericQueryAgent"
    /\ ReportsFailure(arg.response)
    /\ "response_text" \in DOMAIN arg.response.v
    /\ ret = Return(PyBool(FALSE))

-----------------------------------------------------------------------------
(* Properties of time normalization (UnitSpec) *)

AM == <<"a","m">>
PM == <<"p","m">>

\* the call in this state is TimeAnalysisAgent.process on a non-empty
\* temporal mapping
TimeCalled ==
    /\ op = "TimeAnalysisAgent.process"
    /\ "temporal" \in DOMAIN arg.params.v
    /\ arg.params.v.temporal.ty = "dict"
    /\ DOMAIN arg.params.v.temporal.v # {}

GivenDay  == Get(arg.params.v.temporal.v, "day", PyStr(<<>>))
GivenTime == Get(arg.params.v.temporal.v, "time", PyStr(<<>>))

\* the call returned a result marked valid
ReturnedValid ==
    /\ ~ret.raised
    /\ ret.value.ty = "dict"
    /\ "valid" \in DOMAIN ret.value.v
    /\ ret.value.v.valid = PyBool(TRUE)

\* the 24-hour value of hour h of the 12-hour clock under the marker m
Hour24(h, m) ==
    IF m = AM THEN (IF h = 12 THEN 0 ELSE h)
              ELSE (IF h = 12 THEN 12 ELSE h + 12)

\* C8: for every 12-hour time string "H am" or "H pm" with 1 <= H <= 12 (and a
\* day that is a string), process returns a valid result whose hour_24 is 0
\* for 12 am, 12 for 12 pm, H for H am and H + 12 for H pm.
C8_HourConversion ==
    \A h \in 1..12, m \in PlainMeridiems :
        (TimeCalled /\ GivenDay.ty = "str" /\ GivenTime = PyStr(TimeOf(h, m)))
            => /\ ReturnedValid
               /\ "hour_24" \in DOMAIN ret.value.v
               /\ ret.value.v.hour_24 = PyInt(Hour24(h, m))

C8_Witness ==
    /\ TimeCalled
    /\ GivenTime = PyStr(TimeOf(12, AM))
    /\ ReturnedValid
    /\ ret.value.v.hour_24 = PyInt(0)

\* the plain lowercase marker a spelling stands for
PlainOf(m) == IF StrContains(StrLower(m), <<"a">>) THEN AM ELSE PM

\* C9: a time string whose marker is written with capitals or periods
\* ("11 PM", "11 p.m.", "11 P.M.") is converted to the same hour_24 as the
\* plain lowercase form ("11 pm").
C9_MarkerSpellings ==
    \A h \in 1..12, m \in MarkedMeridiems :
        (TimeCalled /\ GivenDay.ty = "str" /\ GivenTime = PyStr(TimeOf(h, m)))
            => /\ ReturnedValid
               /\ "hour_24" \in DOMAIN ret.value.v
               /\ ret.value.v.hour_24 = PyInt(Hour24(h, PlainOf(m)))

\* the week, Sunday first: the day number is the position less one
WeekDays ==
    << <<"s","u","n","d","a","y">>, <<"m","o","n","d","a","y">>,
       <<"t","u","e","s","d","a","y">>, <<"w","e","d","n","e","s","d","a","y">>,
       <<"t","h","u","r","s","d","a","y">>, <<"f","r","i","d","a","y">>,
       <<"s","a","t","u","r","d","a","y">> >>

\* d spells the day name c, in any letter case
SpellsDay(d, c) ==
    /\ Len(d) = Len(c)
    /\ \A i \in 1..Len(c) : d[i] = c[i] \/ d[i] = UpperChar(c[i])

\* C10: a canonical day name in any letter case gives its number (Sunday 0,
\* Monday 1, ..., Saturday 6); every other string, the empty one included,
\* gives -1; the day never makes the result invalid (the result is invalid
\* exactly when the time fails to convert); day_number is in -1..6.
C10_DayMapping ==
    (TimeCalled /\ GivenDay.ty = "str") =>
        /\ ~ret.raised
        /\ ret.value.ty = "dict"
        /\ ret.value.v.valid = PyBool(~ConvertHour(GivenTime).raised)
        /\ ReturnedValid =>
            /\ "day_number" \in DOMAIN ret.value.v
            /\ ret.value.v.day_number.ty = "int"
            /\ ret.value.v.day_number.v \in -1..6
            /\ \A i \in 1..7 :
                   SpellsDay(GivenDay.v, WeekDays[i])
                       => ret.value.v.day_number.v = i - 1
            /\ (~\E i \in 1..7 : SpellsDay(GivenDay.v, WeekDays[i]))
                   => ret.value.v.day_number.v = -1

C10_Witness ==
    /\ TimeCalled
    /\ GivenDay = PyStr(<<"S","A","T","U","R","D","A","Y">>)
    /\ ReturnedValid
    /\ ret.value.v.day_number = PyInt(6)

-----------------------------------------------------------------------------
(* Properties of the pipeline (Spec) *)

Selected == pc \in {"Running", "Completed", "Failed"}

QueryTypeOf(c) == Get(c.v, "query_type", PyNone)

\* the stage did not pass: process raised, or validate_response did not
\* return a true value
Rejected(e) == ~e.passed

\* C3: fail-fast.  An agent whose validate_response does not accept its own
\* result is the last agent to run: the run is Failed, the payload names
\* that agent and its stage index and carries no results, and the context
\* is the one the agent was given.  A result with valid = false from any
\* agent but Query Analysis is rejected; so when Place Validation yields
\* valid: false, Attribute Check never runs.
C3_FailFast ==
    /\ \A i \in 1..Len(trace) :
           Rejected(trace[i]) =>
               /\ i = Len(trace)
               /\ pc = "Failed"
               /\ stage = i - 1
               /\ Context = trace[i].seen
               /\ payload.ty = "dict"
               /\ "results" \notin DOMAIN payload.v
               /\ payload.v.agent = PyText(trace[i].agent)
               /\ payload.v.stage = PyInt(i - 1)
    /\ \A i \in 1..Len(trace) :
           (~trace[i].outcome.raised /\ trace[i].class # "QueryAnalysisAgent"
                /\ ReportsFailure(trace[i].outcome.value))
               => Rejected(trace[i])
    /\ \A i \in 1..Len(trace) :
           (trace[i].class = "PlaceValidationAgent" /\ ~trace[i].outcome.raised
                /\ ReportsFailure(trace[i].outcome.value))
               => ~\E j \in 1..Len(trace) : trace[j].class = "AttributeCheckAgent"
    /\ pc = "Completed" => \A i \in 1..Len(trace) : trace[i].passed

C3_Witness ==
    /\ pc = "Failed"
    /\ Len(trace) = 1
    /\ trace[1].class = "PlaceValidationAgent"
    /\ ~trace[1].outcome.raised
    /\ ReportsFailure(trace[1].outcome.value)
    /\ Len(sequence) = 2

\* the agent classes each query type is to run, in order
ExpectedAgents(query_type) ==
    IF query_type = PyText("place_search_temporal")
    THEN <<"QueryAnalysisAgent", "LocationAnalysisAgent", "TimeAnalysisAgent">>
    ELSE IF query_type = PyText("place_attribute_check")
    THEN <<"PlaceValidationAgent", "AttributeCheckAgent">>
    ELSE IF query_type = PyText("nearby_search")
    THEN <<"LocationAnalysisAgent">>
    ELSE <<"GenericQueryAgent">>

\* C4: the agent sequence is a function of query_type alone, with the four
\* rows of the routing table; the agents that have run are, in order and
\* with none inserted or skipped, the first agents of that sequence, each an
\* instance of the class its name is registered under; a completed run has
\* run them all.
C4_Routing ==
    Selected =>
        /\ sequence = ExpectedAgents(QueryTypeOf(classification))
        /\ Len(trace) <= Len(sequence)
        /\ \A i \in 1..Len(trace) :
               /\ trace[i].agent = sequence[i]
               /\ trace[i].class = ExpectedAgents(QueryTypeOf(classification))[i]
        /\ \A i \in 1..Len(sequence) : sequence[i] \in DOMAIN AgentFactory_agents
        /\ stage = Cardinality({ i \in 1..Len(trace) : trace[i].passed })
        /\ pc = "Running" => Len(trace) = stage
        /\ pc = "Completed" => Len(trace) = Len(sequence)

C4_Witness ==
    /\ pc = "Completed"
    /\ QueryTypeOf(classification) = PyText("place_search_temporal")
    /\ Len(trace) = 3
    /\ trace[1].class = "QueryAnalysisAgent"
    /\ trace[2].class = "LocationAnalysisAgent"
    /\ trace[3].class = "TimeAnalysisAgent"

\* the words of a location, separated by single spaces
Spaced(a, b) ==
    IF a = <<>> THEN b ELSE IF b = <<>> THEN a ELSE a \o <<" ">> \o b
Word(loc, k) == IF k \in DOMAIN loc.v THEN loc.v[k].v ELSE <<>>
AddressOf(loc) ==
    IF loc.ty = "dict"
    THEN Spaced(Spaced(Word(loc, "area"), Word(loc, "city")), Word(loc, "country"))
    ELSE loc.v

\* the caller supplied no location of its own
NoDirectLocation ==
    /\ "extracted_params" \in DOMAIN classification.v
    /\ "location" \notin DOMAIN classification.v.extracted_params.v

\* C5: the context accumulates.  Every key an agent was given, and every
\* key of a result that passed, is among the keys each later agent is given
\* and among those of the current context; the next agent is given the
\* values the result wrote.  For place_search_temporal with no location
\* from the caller, Location Analysis is given the location Query Analysis
\* wrote and asks the provider for exactly that location.
C5_ContextAccumulates ==
    /\ Selected =>
           /\ "query" \in DOMAIN Context.v
           /\ \A i \in 1..Len(trace) :
                  /\ DOMAIN trace[i].seen.v \subseteq DOMAIN Context.v
                  /\ trace[i].passed =>
                         DOMAIN trace[i].outcome.value.v \subseteq DOMAIN Context.v
    /\ \A i \in 1..Len(trace), j \in 1..Len(trace) :
           i < j =>
               /\ trace[i].passed
               /\ DOMAIN trace[i].seen.v \subseteq DOMAIN trace[j].seen.v
               /\ DOMAIN trace[i].outcome.value.v \subseteq DOMAIN trace[j].seen.v
               /\ j = i + 1 =>
                      \A k \in DOMAIN trace[i].outcome.value.v :
                          trace[j].seen.v[k] = trace[i].outcome.value.v[k]
    /\ (/\ Selected
        /\ QueryTypeOf(classification) = PyText("place_search_temporal")
        /\ NoDirectLocation
        /\ Len(trace) >= 2)
           => /\ trace[2].class = "LocationAnalysisAgent"
              /\ "location" \in DOMAIN trace[1].outcome.value.v
              /\ trace[2].seen.v.location = trace[1].outcome.value.v.location
              /\ trace[2].requests =
                     IF AddressOf(trace[1].outcome.value.v.location) = <<>>
                     THEN << >>
                     ELSE << [url     |-> "geocode/json",
                              address |-> PyStr(AddressOf(
                                  trace[1].outcome.value.v.location))] >>

C5_Witness ==
    /\ pc = "Completed"
    /\ QueryTypeOf(classification) = PyText("place_search_temporal")
    /\ NoDirectLocation
    /\ Len(trace) = 3
    /\ trace[2].requests =
           << [url     |-> "geocode/json",
               address |-> PyStr(Mitte \o <<" ">> \o Berlin \o <<" ">> \o Germany)] >>
    /\ "formatted_address" \in DOMAIN trace[3].seen.v
    /\ "hour_24" \in DOMAIN Context.v

-----------------------------------------------------------------------------
(* Properties of the agent factory (UnitSpec) *)

CreateCalled == op = "AgentFactory.create_agent"

\* the fixed mapping: six type names, each to the agent class of that name
SixAgentTypes ==
    ( "QueryAnalysisAgent"    :> "QueryAnalysisAgent"    ) @@
    ( "LocationAnalysisAgent" :> "LocationAnalysisAgent" ) @@
    ( "TimeAnalysisAgent"     :> "TimeAnalysisAgent"     ) @@
    ( "PlaceValidationAgent"  :> "PlaceValidationAgent"  ) @@
    ( "AttributeCheckAgent"   :> "AttributeCheckAgent"   ) @@
    ( "GenericQueryAgent"     :> "GenericQueryAgent"     )

\* the call failed with the unknown-agent-type error naming the type
UnknownAgentType ==
    /\ ret.raised
    /\ ret.exc = "ValueError"
    /\ ret.msg = "Unknown agent type: " \o arg.agent_type

\* the mapping after the call is the six-entry mapping it was before
MappingKept ==
    /\ agents = arg.agents
    /\ agents = SixAgentTypes

\* the keywords the constructor of each class cannot do without
Needs(class) ==
    CASE class \in {"QueryAnalysisAgent", "GenericQueryAgent"}      -> {"openai_client"}
      [] class \in {"LocationAnalysisAgent", "PlaceValidationAgent"} -> {"google_api_key"}
      [] class = "AttributeCheckAgent" -> {"google_api_key", "openai_client"}
      [] class = "TimeAnalysisAgent"   -> {}

\* C11, as stated: create_agent fails with the "Unknown agent type" error for
\* every name outside the six-entry mapping, returns an instance of exactly
\* the mapped class for every name inside it, and leaves the mapping as it
\* was.
C11_FactoryContract ==
    CreateCalled =>
        /\ arg.agent_type \notin DOMAIN SixAgentTypes => UnknownAgentType
        /\ arg.agent_type \in DOMAIN SixAgentTypes =>
               ret = Return(SixAgentTypes[arg.agent_type])
        /\ MappingKept

\* C11, amended: create_agent fails with the "Unknown agent type" error for
\* every name outside the six-entry mapping; for a name inside it, it returns
\* an instance of exactly the mapped class when the call supplies the
\* keywords that class's constructor needs, and raises the constructor's
\* TypeError when one is missing; no call changes the mapping.
C11_FactoryContractGivenDependencies ==
    CreateCalled =>
        /\ arg.agent_type \notin DOMAIN SixAgentTypes => UnknownAgentType
        /\ arg.agent_type \in DOMAIN SixAgentTypes =>
               IF Needs(SixAgentTypes[arg.agent_type]) \subseteq arg.kwargs
               THEN ret = Return(SixAgentTypes[arg.agent_type])
               ELSE ret.raised /\ ret.exc = "TypeError"
        /\ MappingKept

\* an Attribute Check agent was created from both dependencies
C11_Witness ==
    /\ CreateCalled
    /\ arg.agent_type = "AttributeCheckAgent"
    /\ arg.kwargs = {"google_api_key", "openai_client"}
    /\ ret = Return("AttributeCheckAgent")
    /\ agents = arg.agents

-----------------------------------------------------------------------------
(* Properties of Time Analysis error handling (UnitSpec) *)

TimeProcessCalled == op = "TimeAnalysisAgent.process"

\* temporal is absent from the context, or is an empty value
TemporalAbsentOrEmpty ==
    \/ "temporal" \notin DOMAIN arg.params.v
    \/ arg.params.v.temporal \in
           { PyDict(EmptyMap), PyStr(<<>>), PyText(""), PyNone, PyInt(0),
             PyList(<<>>) }

\* the valid no-op
NoTemporalResult == PyDict([valid |-> PyBool(TRUE), has_temporal |-> PyBool(FALSE)])

\* {valid: false, error: <message>}
IsParseFailure(result) ==
    /\ result.ty = "dict"
    /\ DOMAIN result.v = {"valid", "error"}
    /\ result.v.valid = PyBool(FALSE)
    /\ result.v.error.ty = "text"

\* the full result of a temporal mapping that parsed
IsTemporalResult(result) ==
    /\ result.ty = "dict"
    /\ DOMAIN result.v =
           {"valid", "has_temporal", "day_number", "day_name", "hour_24", "context"}
    /\ result.v.valid = PyBool(TRUE)
    /\ result.v.has_temporal = PyBool(TRUE)

\* time values that do not parse: a word, a marker without an hour, an hour
\* with the marker attached, a list
UnparsableTimes ==
    { PyStr(<<"n","o","o","n">>), PyStr(<<"p","m">>), PyList(<<PyInt(9)>>) }
      \cup { PyStr(StrOfNat(h) \o m) : h \in 0..MaxHour, m \in {AM, PM} }

\* a non-empty temporal whose day or time cannot be parsed: temporal is no
\* mapping, the day is no string, or the time is unparsable
ParseFails ==
    /\ ~TemporalAbsentOrEmpty
    /\ \/ arg.params.v.temporal.ty # "dict"
       \/ /\ arg.params.v.temporal.ty = "dict"
          /\ \/ Get(arg.params.v.temporal.v, "day", PyStr(<<>>)).ty # "str"
             \/ Get(arg.params.v.temporal.v, "time", PyStr(<<>>)) \in UnparsableTimes

\* C12: Time Analysis never raises: process returns the valid no-op {valid:
\* true, has_temporal: false} when temporal is absent or empty, returns
\* {valid: false, error: <message>} when the day or the time fails to parse
\* (non-numeric hour, malformed token, non-string or non-mapping value), and
\* otherwise returns the full valid result.
C12_TimeNeverRaises ==
    TimeProcessCalled =>
        /\ ~ret.raised
        /\ TemporalAbsentOrEmpty <=> ret.value = NoTemporalResult
        /\ ParseFails => IsParseFailure(ret.value)
        /\ \/ ret.value = NoTemporalResult
           \/ IsParseFailure(ret.value)
           \/ IsTemporalResult(ret.value)

\* a day that is no string, with a time that parses, gave {valid: false, error}
C12_Witness ==
    /\ TimeProcessCalled
    /\ ParseFails
    /\ arg.params.v.temporal.ty = "dict"
    /\ Get(arg.params.v.temporal.v, "day", PyStr(<<>>)) = PyNone
    /\ Get(arg.params.v.temporal.v, "time", PyStr(<<>>)) = PyStr(<<"9"," ","a","m">>)
    /\ IsParseFailure(ret.value)

-----------------------------------------------------------------------------
(* Properties of the provider-backed agents (UnitSpec) *)

LocationCalled == op = "LocationAnalysisAgent.process"

\* the provider answered the request with a decoded body
ProviderResponded == ~arg.http.raised /\ arg.http.value.ty = "dict"

\* the status of the provider's response
ProviderStatus == Get(arg.http.value.v, "status", PyNone)

\* no location can be derived from the context
NoLocationDerived ==
    /\ ~LocationOf(arg.params).raised
    /\ ~Truthy(LocationOf(arg.params).value)

\* a location was derived from the context, so the provider is asked
LocationDerived ==
    /\ ~LocationOf(arg.params).raised
    /\ Truthy(LocationOf(arg.params).value)

\* the call returned valid: false with a reason
ReturnedInvalid ==
    /\ ~ret.raised
    /\ ret.value.ty = "dict"
    /\ "valid" \in DOMAIN ret.value.v
    /\ ret.value.v.valid = PyBool(FALSE)
    /\ "error" \in DOMAIN ret.value.v

\* C13: Location Analysis never raises on a provider response: without a
\* location it returns valid: false with a reason and sends no request; for
\* every provider response it returns valid: true with formatted_address,
\* coordinates, place_id and types, or valid: false with a reason; every
\* non-OK status gives valid: false.
C13_LocationNeverRaises ==
    LocationCalled =>
        /\ NoLocationDerived =>
               ReturnedInvalid /\ LocationAnalysis_requests(arg.params) = << >>
        /\ (LocationDerived /\ ProviderResponded) =>
               /\ ~ret.raised
               /\ \/ ReturnedInvalid
                  \/ /\ ReturnedValid
                     /\ {"formatted_address", "coordinates", "place_id", "types"}
                            \subseteq DOMAIN ret.value.v
               /\ ProviderStatus # PyText("OK") => ReturnedInvalid

PlaceCalled == op = "PlaceValidationAgent.process"

\* the candidates of the provider's response
Candidates == Get(arg.http.value.v, "candidates", PyList(<<>>))

\* the provider found no candidate: a status other than OK, or an empty
\* candidate list
NoCandidate ==
    \/ ProviderStatus # PyText("OK")
    \/ Candidates = PyList(<<>>)

\* C14: Place Validation returns valid: false whenever the provider finds no
\* candidate (a non-OK status or an empty candidate list), and returns valid:
\* true only together with place_details equal to the first candidate.
C14_NoCandidateIsInvalid ==
    (PlaceCalled /\ ProviderResponded) =>
        /\ NoCandidate => ReturnedInvalid
        /\ ReturnedValid =>
               /\ "place_details" \in DOMAIN ret.value.v
               /\ Candidates.v # << >>
               /\ ret.value.v.place_details = Candidates.v[1]

\* the call was GenericQueryAgent.process and the completion was returned
GenericAnswered == op = "GenericQueryAgent.process" /\ ~arg.llm.raised

\* C15: whenever the language-model call does not fail, the result of Generic
\* Query is valid: true with a non-empty response_text, and passes
\* GenericQueryAgent.validate_response.
C15_GenericAlwaysAnswers ==
    GenericAnswered =>
        /\ ReturnedValid
        /\ "response_text" \in DOMAIN ret.value.v
        /\ ret.value.v.response_text \notin {PyNone, PyText(""), PyStr(<<>>)}
        /\ GenericQuery_validate_response(ret.value) = Return(PyBool(TRUE))

-----------------------------------------------------------------------------
(* The context mapping across process (UnitSpec) *)

ProcessCalled == op \in ProcessOps

\* the keys of the result that the context handed over did not have
NewFields == DOMAIN ret.value.v \ DOMAIN arg.params.v

\* C16: no agent's process changes the context mapping it is given: after
\* process returns or raises, the caller's mapping has the keys and values it
\* had before the call; new fields are in the returned result alone.
C16_ContextNotMutated ==
    ProcessCalled => held = arg.params

\* Location Analysis sent its request and returned the resolved address;
\* the caller's mapping is as before, without address, key or a result field
C16_Witness ==
    /\ LocationCalled
    /\ LocationAnalysis_requests(arg.params) # << >>
    /\ ReturnedValid
    /\ held = arg.params
    /\ "formatted_address" \in NewFields
    /\ DOMAIN held.v \cap (NewFields \cup {"address", "key"}) = {}

-----------------------------------------------------------------------------
(* The two time parsers (UnitSpec) *)

ParseTimeCalled == op = "GoogleMapsLLMIntegration._parse_time"

\* what TimeAnalysisAgent.process returns for a temporal holding time_str alone
TimeAnalysisOf(time_str) ==
    TimeAnalysis_process(PyDict([temporal |-> PyDict([time |-> time_str])]))

\* C17: for every hour H in 1..12 and meridiem am or pm, _parse_time("H am")
\* or ("H pm") returns (h, 0) where h is the hour_24 that
\* TimeAnalysisAgent.process produces for the same time string, and h is in
\* 0..23.
C17_ParsersAgree ==
    \A h \in 1..12, m \in {AM, PM} :
        (ParseTimeCalled /\ arg.time_str = PyStr(TimeOf(h, m))) =>
            /\ ~ret.raised
            /\ ret.value.ty = "tuple"
            /\ Len(ret.value.v) = 2
            /\ ret.value.v[2] = PyInt(0)
            /\ ret.value.v[1].ty = "int"
            /\ ret.value.v[1].v \in 0..23
            /\ ~TimeAnalysisOf(arg.time_str).raised
            /\ TimeAnalysisOf(arg.time_str).value.v.valid = PyBool(TRUE)
            /\ TimeAnalysisOf(arg.time_str).value.v.hour_24 = ret.value.v[1]
            /\ ret.value.v[1] = PyInt(Hour24(h, m))

\* "12 pm" gave (12, 0), the noon that Time Analysis gives too
C17_Witness ==
    /\ ParseTimeCalled
    /\ arg.time_str = PyStr(TimeOf(12, PM))
    /\ ret = Return(PyTuple(<<PyInt(12), PyInt(0)>>))
    /\ TimeAnalysisOf(arg.time_str).value.v.hour_24 = PyInt(12)

====
